---- MODULE Spec2Model ----
(***************************************************************************)
(* A model of github.com/abdivasiyev/rester: the generic request adapter   *)
(* httpx.Handle, its option handling (applyOptions), the typed error       *)
(* wrapper errorsx (New, As) and the JSON / XML encoders.                  *)
(*                                                                         *)
(* Texts (error messages, bodies) are sequences of string tokens, so that  *)
(* concatenation and "contains" are computable.  An error value is the     *)
(* sequence of errors that errors.As visits: the error itself first, then  *)
(* what Unwrap exposes.  The nil error is the empty sequence.              *)
(***************************************************************************)
EXTENDS Integers, Sequences, FiniteSets, TLC

(* ------------------------------ bounds -------------------------------- *)
\* number of requests served concurrently by one handler value (SpecConc)
NumReq == 2
\* longest error chain Bind / Validate / the use case may return
MaxChain == 3
\* longest option list passed to Handle (SpecOpt)
MaxOpts == 3

Requests == 1..NumReq

(* ------------------------- net/http constants ------------------------- *)
StatusOK == 200
StatusInternalServerError == 500

\* http.StatusText(http.StatusInternalServerError)
StatusText500 == <<"Internal Server Error">>

(* ------------------------------ errorsx ------------------------------- *)
\* errorsx.New: a classified error
ErrorxNew(isInternal, code, message) ==
    [classified |-> TRUE, isInternal |-> isInternal, code |-> code, message |-> message]

\* any other error type (fmt.Errorf, errors.Join, io errors, ...)
Opaque(message) ==
    [classified |-> FALSE, isInternal |-> FALSE, code |-> 0, message |-> message]

\* the nil *Errorx that As returns when nothing is found
NilErrx == Opaque("<nil>")

NoError == <<>>

\* (*Errorx).Internal
Internal(e) == e.isInternal

\* (*Errorx).Code
Code(e) == e.code

\* (*Errorx).Error
ErrorxError(e) == <<e.message>>

\* a faulty variant of As: keeps walking and returns the innermost classified error
RECURSIVE AsInnermost(_)
AsInnermost(err) ==
    IF err = <<>> THEN [errx |-> NilErrx, ok |-> FALSE]
    ELSE LET deeper == AsInnermost(Tail(err))
         IN IF deeper.ok THEN deeper
            ELSE IF Head(err).classified THEN [errx |-> Head(err), ok |-> TRUE]
            ELSE deeper

\* errorsx.As: errors.As(err, &rErr) walks the chain, first match wins
RECURSIVE As(_)
As(err) ==
    IF err = <<>> THEN [errx |-> NilErrx, ok |-> FALSE]
    ELSE IF Head(err).classified THEN [errx |-> Head(err), ok |-> TRUE]
    ELSE As(Tail(err))

\* the text of a wrapping error (fmt.Errorf("..: %w"), errors.Join): its own
\* text and the texts of everything it wraps
RECURSIVE JoinMessages(_)
JoinMessages(err) ==
    IF Len(err) = 1 THEN <<err[1].message>>
    ELSE <<err[1].message, ": ">> \o JoinMessages(Tail(err))

\* err.Error() of an error value: an Errorx prints its message only
ErrorText(err) ==
    IF err = <<>> THEN <<>>
    ELSE IF Head(err).classified THEN <<Head(err).message>>
    ELSE JoinMessages(err)

\* `errx, ok := errorsx.As(err); ok && !errx.Internal()`
IsExternal(err) ==
    LET a == As(err) IN a.ok /\ ~Internal(a.errx)

(* ------------------------------ encoder ------------------------------- *)
\* the package-level singletons encoder.JsonEncoder and encoder.XmlEncoder
Formats == {"json", "xml"}
NilEncoder == "nil"
NilLogger == "nil"
\* the logger slogx.New() builds when no option is given
DefaultLogger == "slogx.New()"

\* values handed to Encode
DefaultResponse(message) == [type |-> "DefaultResponse", message |-> message, merr |-> <<>>]
StringValue(text) == [type |-> "string", message |-> text, merr |-> <<>>]
\* a value no encoder supports (a channel, a func)
Unsupported == [type |-> "chan", message |-> <<>>, merr |-> <<>>]
\* a value whose MarshalJSON / MarshalXML method returns merr
FailingMarshaler(merr) == [type |-> "marshaler", message |-> <<>>, merr |-> merr]

\* json.Encoder: marshal to a buffer, append a newline
JSONMarshal(v) ==
    CASE v.type = "DefaultResponse" ->
           [err |-> NoError, bytes |-> <<"{\"message\":\"">> \o v.message \o <<"\"}", "\n">>]
      [] v.type = "string" ->
           [err |-> NoError, bytes |-> <<"\"">> \o v.message \o <<"\"", "\n">>]
      [] v.type = "chan" ->
           [err |-> <<Opaque("json: unsupported type")>>, bytes |-> <<>>]
      [] OTHER ->
           [err |-> <<Opaque("json: error calling MarshalJSON")>> \o v.merr, bytes |-> <<>>]

\* xml.Encoder: structural element encoding, element named after the type
XMLMarshal(v) ==
    CASE v.type = "DefaultResponse" ->
           [err |-> NoError,
            bytes |-> <<"<DefaultResponse><Message>">> \o v.message
                      \o <<"</Message></DefaultResponse>">>]
      [] v.type = "string" ->
           [err |-> NoError, bytes |-> <<"<string>">> \o v.message \o <<"</string>">>]
      [] v.type = "chan" ->
           [err |-> <<Opaque("xml: unsupported type")>>, bytes |-> <<>>]
      [] OTHER ->
           [err |-> v.merr, bytes |-> <<>>]

Marshal(format, v) == IF format = "json" THEN JSONMarshal(v) ELSE XMLMarshal(v)

\* a faulty variant of New: binds the receiver itself to the sink and returns it
EncoderNewReusesReceiver(format, sink, globals) ==
    [enc |-> [global |-> TRUE, format |-> format, sink |-> 0],
     globals |-> [globals EXCEPT ![format] = sink]]

\* (*jsonEncoder).New / (*xmlEncoder).New: a fresh encoder bound to the sink;
\* the receiver (the singleton, whose sinks are `globals`) is not touched
EncoderNew(format, sink, globals) ==
    [enc |-> [global |-> FALSE, format |-> format, sink |-> sink],
     globals |-> globals]

\* the encoder no request holds yet
NoEncoder == [global |-> FALSE, format |-> "json", sink |-> 0]

\* the sink an encoder writes to (0: the nil encoder field of a singleton)
SinkOf(enc, globals) == IF enc.global THEN globals[enc.format] ELSE enc.sink

(* ------------------------- http.ResponseWriter ------------------------ *)
\* what reached a ResponseWriter: every WriteHeader call, the status that
\* took effect (0: none yet), every Write call with the request that made it
NewResponseWriter == [status |-> 0, headerCalls |-> <<>>, writes |-> <<>>]

\* ResponseWriter.WriteHeader: only the first call takes effect
WriteHeader(rw, code) ==
    [rw EXCEPT !.headerCalls = Append(@, code),
               !.status = IF @ = 0 THEN code ELSE @]

\* ResponseWriter.Write: an implicit WriteHeader(200) if none was made
Write(rw, by, data) ==
    [rw EXCEPT !.status = IF @ = 0 THEN StatusOK ELSE @,
               !.writes = Append(@, [by |-> by, data |-> data])]

\* http.Error: WriteHeader(code), then Fprintln(w, text)
HttpError(rw, by, text, code) ==
    Write(WriteHeader(rw, code), by, text \o <<"\n">>)

(* ------------------------------ options ------------------------------- *)
ZeroOptions == [successCode |-> 0, encoder |-> NilEncoder, logger |-> NilLogger]

WithSuccessCode(code) ==
    [set |-> "successCode", code |-> code, encoder |-> NilEncoder, logger |-> NilLogger]
WithEncoder(encoder) ==
    [set |-> "encoder", code |-> 0, encoder |-> encoder, logger |-> NilLogger]
WithLogger(logger) ==
    [set |-> "logger", code |-> 0, encoder |-> NilEncoder, logger |-> logger]

\* a faulty variant of an option: keeps a value set earlier (first write wins)
ApplyOptionKeepFirst(option, hh) ==
    CASE option.set = "successCode" ->
           IF hh.successCode = 0 THEN [hh EXCEPT !.successCode = option.code] ELSE hh
      [] option.set = "encoder" ->
           IF hh.encoder = NilEncoder THEN [hh EXCEPT !.encoder = option.encoder] ELSE hh
      [] OTHER ->
           IF hh.logger = NilLogger THEN [hh EXCEPT !.logger = option.logger] ELSE hh

\* option(&h): the closure returned by WithSuccessCode / WithEncoder / WithLogger
ApplyOption(option, hh) ==
    CASE option.set = "successCode" -> [hh EXCEPT !.successCode = option.code]
      [] option.set = "encoder" -> [hh EXCEPT !.encoder = option.encoder]
      [] OTHER -> [hh EXCEPT !.logger = option.logger]

\* `for _, option := range options { option(&h) }`
RECURSIVE ApplyAll(_, _)
ApplyAll(options, hh) ==
    IF options = <<>> THEN hh
    ELSE ApplyAll(Tail(options), ApplyOption(Head(options), hh))

\* a faulty variant of the defaulting: the success code default is forgotten
WithDefaultsNoCode(hh) ==
    [successCode |-> hh.successCode,
     encoder |-> IF hh.encoder = NilEncoder THEN "json" ELSE hh.encoder,
     logger |-> IF hh.logger = NilLogger THEN DefaultLogger ELSE hh.logger]

\* the three defaulting tests that end applyOptions
WithDefaults(hh) ==
    [successCode |-> IF hh.successCode <= 0 THEN StatusOK ELSE hh.successCode,
     encoder |-> IF hh.encoder = NilEncoder THEN "json" ELSE hh.encoder,
     logger |-> IF hh.logger = NilLogger THEN DefaultLogger ELSE hh.logger]

applyOptions(options) == WithDefaults(ApplyAll(options, ZeroOptions))

(* --------------------------- the environment -------------------------- *)
\* the errors application code builds: another error type, a client-visible
\* Errorx and an internal Errorx
ErrNodes ==
    { Opaque("db: connection refused"),
      ErrorxNew(FALSE, 400, "missing field x"),
      ErrorxNew(TRUE, 403, "secret token expired") }

\* the non-nil error values of at most MaxChain errors; an Errorx has no
\* Unwrap method, so it wraps nothing
ErrorValues ==
    { c \in UNION { [1..n -> ErrNodes] : n \in 1..MaxChain } :
        c[1].classified => Len(c) = 1 }

\* what a use case may return
Responses ==
    { DefaultResponse(<<"OK">>),
      Unsupported,
      FailingMarshaler(<<ErrorxNew(FALSE, 422, "unprocessable value")>>),
      FailingMarshaler(<<ErrorxNew(TRUE, 403, "secret token expired")>>) }

\* what the application and the transport may do: the errors Bind, Validate
\* and the use case return, the responses, and how many tokens of a body a
\* failing Write delivers
FullEnv == [errs |-> ErrorValues, resps |-> Responses, prefix |-> {0, 1}]

SmallEnv ==
    [errs |-> { <<ErrorxNew(FALSE, 400, "missing field x")>>,
                <<Opaque("db: connection refused")>> },
     resps |-> { DefaultResponse(<<"OK">>), Unsupported },
     prefix |-> {0, 1}]

\* the options a caller may pass
Options ==
    { WithSuccessCode(c) : c \in {-1, 0, 201, 404} }
    \cup { WithEncoder(e) : e \in {NilEncoder, "json", "xml"} }
    \cup { WithLogger(l) : l \in {NilLogger, "custom"} }

OptionSeqs == UNION { [1..n -> Options] : n \in 0..MaxOpts }

HandleOptionSeqs ==
    { <<>>,
      <<WithSuccessCode(201), WithEncoder("xml")>>,
      <<WithLogger("custom"), WithSuccessCode(0)>> }

(* ------------------------------- state -------------------------------- *)
VARIABLES
    opts,       \* the options passed to Handle
    h,          \* the handlerOptions the returned closure captured
    built,      \* Handle has returned
    env,        \* what the application and the transport may do
    live,       \* the requests the server dispatches to the handler
    globals,    \* the encoder field of the singletons JsonEncoder, XmlEncoder
    pc,         \* each request's position in the closure
    err,        \* each request's local `err`
    site,       \* the step whose response is being encoded
    payload,    \* the value handed to Encode
    held,       \* the encoder h.encoder.New(w) returned
    w,          \* each request's ResponseWriter
    trace,      \* what each request did, in order
    hist        \* what each request's steps returned

vars == <<opts, h, built, env, live, globals, pc, err, site, payload, held, w, trace, hist>>

\* a step that has not run
NotRun == <<Opaque("<not run>")>>

Event(op, at) == [op |-> op, at |-> at]

InitWith(optionSeqs, environment, requests) ==
    /\ opts \in optionSeqs
    /\ h = ZeroOptions
    /\ built = FALSE
    /\ env = environment
    /\ live = requests
    /\ globals = [f \in Formats |-> 0]
    /\ pc = [r \in Requests |-> "bind"]
    /\ err = [r \in Requests |-> NoError]
    /\ site = [r \in Requests |-> "none"]
    /\ payload = [r \in Requests |-> DefaultResponse(<<>>)]
    /\ held = [r \in Requests |-> NoEncoder]
    /\ w = [r \in Requests |-> NewResponseWriter]
    /\ trace = [r \in Requests |-> <<>>]
    /\ hist = [r \in Requests |->
                [bind |-> NotRun, validate |-> NotRun, useCase |-> NotRun,
                 response |-> DefaultResponse(<<>>), encode |-> NotRun,
                 delivered |-> -1]]

\* one request served alone
Init == InitWith(HandleOptionSeqs, FullEnv, {1})

\* NumReq requests served concurrently by one handler value
InitConc == InitWith({<<>>, <<WithEncoder("xml"), WithSuccessCode(201)>>}, SmallEnv, Requests)

\* construction only
InitOpt == InitWith(OptionSeqs, SmallEnv, {})

(* ------------------------------ actions ------------------------------- *)
\* Handle: `var h = applyOptions(options...)`, then the closure is returned
Handle ==
    /\ ~built
    /\ h' = applyOptions(opts)
    /\ built' = TRUE
    /\ UNCHANGED <<opts, env, live, globals, pc, err, site, payload, held, w, trace, hist>>

\* the body a client-visible Bind error is answered with
BindErrorPayload(e) == DefaultResponse(ErrorText(e))

\* a faulty variant of the error body: the message object the Bind step uses
ErrorPayloadAsMessageObject(errx) == DefaultResponse(ErrorxError(errx))

\* the body a client-visible Validate / use-case error is answered with
ErrorPayload(errx) == StringValue(ErrorxError(errx))

\* a faulty variant of AfterFailure: a missing `return` lets the closure
\* fall through to the next step
AfterFailureFallsThrough(external, next) == IF external THEN "new" ELSE next

\* where the closure continues after a failed Validate / use case
AfterFailure(external, next) == IF external THEN "new" ELSE "done"

\* err = _req.Bind(r) and the `if err != nil` block up to WriteHeader
Bind(r) ==
    /\ built /\ r \in live /\ pc[r] = "bind"
    /\ \E e \in env.errs \cup {NoError} :
         /\ err' = [err EXCEPT ![r] = e]
         /\ hist' = [hist EXCEPT ![r].bind = e]
         /\ IF e = NoError
            THEN /\ pc' = [pc EXCEPT ![r] = "logRequest"]
                 /\ trace' = [trace EXCEPT ![r] = Append(@, Event("Bind", "bind"))]
                 /\ UNCHANGED <<site, payload, w>>
            ELSE /\ pc' = [pc EXCEPT ![r] = "new"]
                 /\ site' = [site EXCEPT ![r] = "bind"]
                 /\ IF IsExternal(e)
                    THEN /\ trace' = [trace EXCEPT ![r] = @ \o
                               << Event("Bind", "bind"), Event("LogError", "bind"),
                                  Event("WriteHeader", "bind") >>]
                         /\ w' = [w EXCEPT ![r] = WriteHeader(@, Code(As(e).errx))]
                         /\ payload' = [payload EXCEPT ![r] = BindErrorPayload(e)]
                    ELSE /\ trace' = [trace EXCEPT ![r] = @ \o
                               << Event("Bind", "bind"), Event("WriteHeader", "bind") >>]
                         /\ w' = [w EXCEPT ![r] = WriteHeader(@, StatusInternalServerError)]
                         /\ payload' = [payload EXCEPT ![r] = DefaultResponse(StatusText500)]
    /\ UNCHANGED <<opts, h, built, env, live, globals, held>>

\* h.logger.WithGroup(id).Info("request", _req)
LogRequest(r) ==
    /\ built /\ r \in live /\ pc[r] = "logRequest"
    /\ pc' = [pc EXCEPT ![r] = "validate"]
    /\ trace' = [trace EXCEPT ![r] = Append(@, Event("LogInfo", "request"))]
    /\ UNCHANGED <<opts, h, built, env, live, globals, err, site, payload, held, w, hist>>

\* err = _req.Validate() and its `if err != nil` block
Validate(r) ==
    /\ built /\ r \in live /\ pc[r] = "validate"
    /\ \E e \in env.errs \cup {NoError} :
         /\ err' = [err EXCEPT ![r] = e]
         /\ hist' = [hist EXCEPT ![r].validate = e]
         /\ IF e = NoError
            THEN /\ pc' = [pc EXCEPT ![r] = "useCase"]
                 /\ trace' = [trace EXCEPT ![r] = Append(@, Event("Validate", "validate"))]
                 /\ UNCHANGED <<site, payload, w>>
            ELSE /\ pc' = [pc EXCEPT ![r] = AfterFailure(IsExternal(e), "useCase")]
                 /\ site' = [site EXCEPT ![r] = "validate"]
                 /\ IF IsExternal(e)
                    THEN /\ trace' = [trace EXCEPT ![r] = @ \o
                               << Event("Validate", "validate"), Event("LogError", "validate"),
                                  Event("WriteHeader", "validate") >>]
                         /\ w' = [w EXCEPT ![r] = WriteHeader(@, Code(As(e).errx))]
                         /\ payload' = [payload EXCEPT ![r] = ErrorPayload(As(e).errx)]
                    ELSE /\ trace' = [trace EXCEPT ![r] = @ \o
                               << Event("Validate", "validate"), Event("HttpError", "validate") >>]
                         /\ w' = [w EXCEPT ![r] =
                                    HttpError(@, r, StatusText500, StatusInternalServerError)]
                         /\ UNCHANGED payload
    /\ UNCHANGED <<opts, h, built, env, live, globals, held>>

\* response, err := useCase(r.Context(), req) and its `if err != nil` block
UseCase(r) ==
    /\ built /\ r \in live /\ pc[r] = "useCase"
    /\ \E e \in env.errs \cup {NoError}, resp \in env.resps :
         /\ err' = [err EXCEPT ![r] = e]
         /\ IF e = NoError
            THEN /\ hist' = [hist EXCEPT ![r].useCase = e, ![r].response = resp]
                 /\ pc' = [pc EXCEPT ![r] = "logResponse"]
                 /\ trace' = [trace EXCEPT ![r] = Append(@, Event("UseCase", "useCase"))]
                 /\ UNCHANGED <<site, payload, w>>
            ELSE /\ hist' = [hist EXCEPT ![r].useCase = e]
                 /\ pc' = [pc EXCEPT ![r] = AfterFailure(IsExternal(e), "logResponse")]
                 /\ site' = [site EXCEPT ![r] = "useCase"]
                 /\ IF IsExternal(e)
                    THEN /\ trace' = [trace EXCEPT ![r] = @ \o
                               << Event("UseCase", "useCase"), Event("WriteHeader", "useCase") >>]
                         /\ w' = [w EXCEPT ![r] = WriteHeader(@, Code(As(e).errx))]
                         /\ payload' = [payload EXCEPT ![r] = ErrorPayload(As(e).errx)]
                    ELSE /\ trace' = [trace EXCEPT ![r] = @ \o
                               << Event("UseCase", "useCase"), Event("HttpError", "useCase") >>]
                         /\ w' = [w EXCEPT ![r] =
                                    HttpError(@, r, StatusText500, StatusInternalServerError)]
                         /\ UNCHANGED payload
    /\ UNCHANGED <<opts, h, built, env, live, globals, held>>

\* h.logger.WithGroup(id).Info("response", response); w.WriteHeader(h.successCode)
LogResponse(r) ==
    /\ built /\ r \in live /\ pc[r] = "logResponse"
    /\ pc' = [pc EXCEPT ![r] = "new"]
    /\ site' = [site EXCEPT ![r] = "success"]
    /\ trace' = [trace EXCEPT ![r] = @ \o
          << Event("LogInfo", "response"), Event("WriteHeader", "success") >>]
    /\ w' = [w EXCEPT ![r] = WriteHeader(@, h.successCode)]
    /\ payload' = [payload EXCEPT ![r] = hist[r].response]
    /\ UNCHANGED <<opts, h, built, env, live, globals, err, held, hist>>

\* h.encoder.New(w)
New(r) ==
    /\ built /\ r \in live /\ pc[r] = "new"
    /\ LET n == EncoderNew(h.encoder, r, globals)
       IN /\ held' = [held EXCEPT ![r] = n.enc]
          /\ globals' = n.globals
    /\ pc' = [pc EXCEPT ![r] = "encode"]
    /\ trace' = [trace EXCEPT ![r] = Append(@, Event("New", site[r]))]
    /\ UNCHANGED <<opts, h, built, env, live, err, site, payload, w, hist>>

\* .Encode(v): marshal, then one Write to the sink, which may fail
Encode(r) ==
    /\ built /\ r \in live /\ pc[r] = "encode"
    /\ LET sink == SinkOf(held[r], globals)
           m == Marshal(held[r].format, payload[r])
       IN /\ sink \in Requests
          /\ IF m.err # NoError
             THEN /\ err' = [err EXCEPT ![r] = m.err]
                  /\ pc' = [pc EXCEPT ![r] = "encodeFailed"]
                  /\ w' = w
                  /\ hist' = [hist EXCEPT ![r].encode = m.err]
             ELSE \/ /\ err' = [err EXCEPT ![r] = NoError]
                     /\ pc' = [pc EXCEPT ![r] = "done"]
                     /\ w' = [w EXCEPT ![sink] = Write(@, r, m.bytes)]
                     /\ hist' = [hist EXCEPT ![r].encode = NoError,
                                              ![r].delivered = Len(m.bytes)]
                  \/ \E k \in env.prefix :
                     /\ err' = [err EXCEPT ![r] = <<Opaque("write: broken pipe")>>]
                     /\ pc' = [pc EXCEPT ![r] = "encodeFailed"]
                     /\ w' = [w EXCEPT ![sink] = Write(@, r, SubSeq(m.bytes, 1, k))]
                     /\ hist' = [hist EXCEPT ![r].encode = err'[r],
                                              ![r].delivered = k]
    /\ trace' = [trace EXCEPT ![r] = Append(@, Event("Encode", site[r]))]
    /\ UNCHANGED <<opts, h, built, env, live, globals, site, payload, held>>

\* the `if err != nil` block after an Encode
EncodeFailed(r) ==
    /\ built /\ r \in live /\ pc[r] = "encodeFailed"
    /\ pc' = [pc EXCEPT ![r] = "done"]
    /\ IF site[r] \in {"bind", "validate"}
       THEN /\ trace' = [trace EXCEPT ![r] = @ \o
                  << Event("LogError", "encode"), Event("HttpError", site[r]) >>]
            /\ w' = [w EXCEPT ![r] =
                       HttpError(@, r, StatusText500, StatusInternalServerError)]
       ELSE /\ trace' = [trace EXCEPT ![r] = Append(@, Event("HttpError", site[r]))]
            /\ IF site[r] = "success" /\ IsExternal(err[r])
               THEN w' = [w EXCEPT ![r] =
                       HttpError(@, r, ErrorxError(As(err[r]).errx), Code(As(err[r]).errx))]
               ELSE w' = [w EXCEPT ![r] =
                       HttpError(@, r, StatusText500, StatusInternalServerError)]
    /\ UNCHANGED <<opts, h, built, env, live, globals, err, site, payload, held, hist>>

Next ==
    \/ Handle
    \/ \E r \in Requests :
         \/ Bind(r)
         \/ LogRequest(r)
         \/ Validate(r)
         \/ UseCase(r)
         \/ LogResponse(r)
         \/ New(r)
         \/ Encode(r)
         \/ EncodeFailed(r)

Spec == Init /\ [][Next]_vars

SpecConc == InitConc /\ [][Next]_vars

SpecOpt == InitOpt /\ [][Handle]_vars

(* ============================== claims ================================ *)
Done(r) == r \in live /\ pc[r] = "done"

Failed(e) == e # NoError /\ e # NotRun

InTrace(r, e) == \E i \in DOMAIN trace[r] : trace[r][i] = e

\* text t occurs in the token sequence body
Contains(body, t) ==
    t # <<>> /\ \E i \in 1..(Len(body) - Len(t) + 1) : SubSeq(body, i, i + Len(t) - 1) = t

\* the data of every Write a ResponseWriter received
Bodies(rw) == [i \in DOMAIN rw.writes |-> rw.writes[i].data]

\* C1: every served request ends with exactly one WriteHeader call and
\* exactly one body write on its ResponseWriter, whatever Bind, Validate,
\* the use case and Encode returned.
C1_ExactlyOneResponse ==
    \A r \in Requests :
        Done(r) => Len(w[r].headerCalls) = 1 /\ Len(w[r].writes) = 1

\* the error of the step that ended request r without a client-visible
\* classification, if there is one
HiddenFailures(r) ==
    { e \in {hist[r].bind, hist[r].validate, hist[r].useCase} \cup
            (IF site[r] = "success" THEN {hist[r].encode} ELSE {}) :
        Failed(e) /\ ~IsExternal(e) }

\* C2: when a step (Bind, Validate, the use case, the Encode of the success
\* response) fails with an unclassified or internal error, the status that
\* takes effect is 500 and no body write contains the error's text.
C2_HiddenErrorsAre500 ==
    \A r \in Requests :
        Done(r) => \A e \in HiddenFailures(r) :
            /\ w[r].headerCalls[1] = StatusInternalServerError
            /\ w[r].status = StatusInternalServerError
            /\ \A i \in DOMAIN w[r].writes : ~Contains(w[r].writes[i].data, ErrorText(e))

\* C3: when Bind fails with an error whose chain holds a client-visible
\* Errorx and the error body is encoded, the status is that Errorx's code,
\* the body is the message object carrying the Errorx's own message, and the
\* use case is not called.
C3_BindExternalBody ==
    \A r \in Requests :
        (Done(r) /\ Failed(hist[r].bind) /\ IsExternal(hist[r].bind)
                 /\ hist[r].encode = NoError)
        => LET errx == As(hist[r].bind).errx
           IN /\ w[r].status = Code(errx)
              /\ Bodies(w[r]) = << Marshal(h.encoder, DefaultResponse(ErrorxError(errx))).bytes >>
              /\ ~InTrace(r, Event("UseCase", "useCase"))

\* the options that set a field, in the order given
Setting(field) == SelectSeq(opts, LAMBDA o : o.set = field)

\* C4: when Bind, Validate, the use case and Encode all succeed, the one
\* status written is the configured success code (the last WithSuccessCode
\* value when positive, 200 when none was given), the one body written is the
\* configured encoder's encoding (JSON when none was given) of the value the
\* use case returned.
C4_SuccessResponse ==
    \A r \in Requests :
        (Done(r) /\ hist[r].useCase = NoError /\ hist[r].encode = NoError)
        => /\ hist[r].bind = NoError /\ hist[r].validate = NoError
           /\ w[r].headerCalls = << h.successCode >>
           /\ w[r].status = h.successCode
           /\ LET codes == Setting("successCode")
              IN IF codes = <<>> THEN w[r].status = StatusOK
                 ELSE codes[Len(codes)].code > 0 => w[r].status = codes[Len(codes)].code
           /\ Bodies(w[r]) = << Marshal(h.encoder, hist[r].response).bytes >>
           /\ Setting("encoder") = <<>> => Bodies(w[r]) = << JSONMarshal(hist[r].response).bytes >>
           /\ ~InTrace(r, Event("HttpError", "success"))

C4_Witness ==
    \E r \in Requests :
        /\ Done(r) /\ hist[r].useCase = NoError /\ hist[r].encode = NoError
        /\ opts = <<>>
        /\ w[r].status = StatusOK
        /\ Bodies(w[r]) = << <<"{\"message\":\"", "OK", "\"}", "\n">> >>

\* request r answered a client-visible Validate or use-case error
ExternalAt(r, step) ==
    /\ r \in live /\ site[r] = step
    /\ Failed(hist[r][step]) /\ IsExternal(hist[r][step])

\* the Errorx value itself, handed to Encode as it is
RawErrorValue(errx) == [type |-> "Errorx", message |-> <<>>, merr |-> <<errx>>]

C6_EncodeFailureDowngradedTo500 ==
    \A r \in Requests :
        (Done(r) /\ site[r] \in {"bind", "validate", "useCase"} /\ Failed(hist[r].encode))
        => /\ InTrace(r, Event("LogError", "encode"))
           /\ w[r].status = StatusInternalServerError
           /\ w[r].writes[Len(w[r].writes)].data = StatusText500 \o <<"\n">>

\* the first classified error of a chain, by position
FirstClassified(c) ==
    LET at == { i \in 1..Len(c) : c[i].classified }
    IN IF at = {} THEN [errx |-> NilErrx, ok |-> FALSE]
       ELSE [errx |-> c[CHOOSE i \in at : \A j \in at : i <= j], ok |-> TRUE]

\* the steps of request r that returned an error
FailedSteps(r) == { step \in {"bind", "validate", "useCase"} : Failed(hist[r][step]) }

\* C7: As returns the outermost classified Errorx of the chain, and nothing
\* exactly when the chain holds none; the status a failed step writes first
\* is decided by that Errorx alone: its code when it is client-visible, 500
\* when it is internal or absent.
C7_AsFirstClassified ==
    /\ \A c \in env.errs \cup {NoError} :
         /\ As(c) = FirstClassified(c)
         /\ As(c).ok <=> \E i \in 1..Len(c) : c[i].classified
    /\ \A r \in Requests : \A step \in FailedSteps(r) :
         LET first == FirstClassified(hist[r][step])
         IN /\ Len(w[r].headerCalls) >= 1
            /\ w[r].headerCalls[1] =
                 IF first.ok /\ ~first.errx.isInternal THEN first.errx.code
                 ELSE StatusInternalServerError

C7_Witness ==
    \E r \in Requests :
        /\ Done(r)
        /\ Len(hist[r].validate) = 3
        /\ ~hist[r].validate[1].classified
        /\ hist[r].validate[2].classified /\ ~hist[r].validate[2].isInternal
        /\ hist[r].validate[3].classified /\ hist[r].validate[3].isInternal
        /\ w[r].status = 400

\* the value of the last element of a sequence of options, or none
LastOf(settings) == IF settings = <<>> THEN <<>> ELSE <<settings[Len(settings)]>>

\* options with the i-th one applied twice in a row
DupAt(options, i) == SubSeq(options, 1, i) \o SubSeq(options, i, Len(options))

\* C8: the effective configuration is decided, field by field, by the last
\* option that sets the field (a last value of 0, negative or nil selects the
\* default), and applying an option twice in a row changes nothing.
C8_LastWriteWins ==
    built =>
      /\ LET code == LastOf(Setting("successCode"))
             enc == LastOf(Setting("encoder"))
             logger == LastOf(Setting("logger"))
         IN /\ h.successCode =
                 IF code = <<>> \/ code[1].code <= 0 THEN StatusOK ELSE code[1].code
            /\ h.encoder =
                 IF enc = <<>> \/ enc[1].encoder = NilEncoder THEN "json" ELSE enc[1].encoder
            /\ h.logger =
                 IF logger = <<>> \/ logger[1].logger = NilLogger THEN DefaultLogger
                 ELSE logger[1].logger
      /\ \A i \in 1..Len(opts) : applyOptions(DupAt(opts, i)) = h

C8_Witness ==
    /\ built
    /\ opts = <<WithSuccessCode(201), WithEncoder("xml"), WithSuccessCode(404)>>
    /\ h = [successCode |-> 404, encoder |-> "xml", logger |-> DefaultLogger]

\* the place of an event in the order of the steps (0: not a step)
StepRank(e) ==
    CASE e = Event("Bind", "bind") -> 1
      [] e = Event("LogInfo", "request") -> 2
      [] e = Event("Validate", "validate") -> 3
      [] e = Event("UseCase", "useCase") -> 4
      [] e = Event("LogInfo", "response") -> 5
      [] e = Event("WriteHeader", "success") -> 6
      [] e = Event("Encode", "success") -> 7
      [] OTHER -> 0

Steps(r) == SelectSeq(trace[r], LAMBDA e : StepRank(e) > 0)

\* C9: the steps of a request occur in the order Bind, request log, Validate,
\* use case, response log, success header, success encode, each at most
\* once, and a step occurs only if every earlier step returned no error.
C9_StepOrder ==
    \A r \in Requests :
        LET steps == Steps(r)
            ran(k) == \E i \in DOMAIN steps : StepRank(steps[i]) = k
        IN /\ \A i, j \in DOMAIN steps : i < j => StepRank(steps[i]) < StepRank(steps[j])
           /\ (ran(2) \/ ran(3)) => hist[r].bind = NoError
           /\ ran(4) => hist[r].bind = NoError /\ hist[r].validate = NoError
           /\ (ran(5) \/ ran(6) \/ ran(7)) =>
                 /\ hist[r].bind = NoError /\ hist[r].validate = NoError
                 /\ hist[r].useCase = NoError
           /\ Done(r) => steps # <<>> /\ StepRank(steps[1]) = 1

C9_Witness ==
    \E r \in Requests :
        /\ Done(r)
        /\ Failed(hist[r].validate) /\ ~IsExternal(hist[r].validate)
        /\ hist[r].useCase = NotRun
        /\ Steps(r) = << Event("Bind", "bind"), Event("LogInfo", "request"),
                         Event("Validate", "validate") >>

\* Encode as the history records it, then the fallback of the failing site
EncodeAlone(rw, format, by, v, hi, text, code) ==
    LET m == Marshal(format, v)
    IN IF hi.encode = NoError THEN Write(rw, by, m.bytes)
       ELSE HttpError(IF hi.delivered < 0 THEN rw
                      ELSE Write(rw, by, SubSeq(m.bytes, 1, hi.delivered)),
                      by, text, code)

\* the response of a request served alone by a handler configured hh whose
\* steps returned what the history hi records
ServedAlone(hh, hi, by) ==
    LET failed == IF Failed(hi.bind) THEN hi.bind
                  ELSE IF Failed(hi.validate) THEN hi.validate ELSE hi.useCase
        errx == As(failed).errx
        generic(rw) == HttpError(rw, by, StatusText500, StatusInternalServerError)
        encode(rw, v) == EncodeAlone(rw, hh.encoder, by, v, hi,
                                     StatusText500, StatusInternalServerError)
    IN IF Failed(hi.bind)
       THEN IF IsExternal(hi.bind)
            THEN encode(WriteHeader(NewResponseWriter, Code(errx)), BindErrorPayload(hi.bind))
            ELSE encode(WriteHeader(NewResponseWriter, StatusInternalServerError),
                        DefaultResponse(StatusText500))
       ELSE IF Failed(failed)
       THEN IF IsExternal(failed)
            THEN encode(WriteHeader(NewResponseWriter, Code(errx)), ErrorPayload(errx))
            ELSE generic(NewResponseWriter)
       ELSE IF Failed(hi.encode) /\ IsExternal(hi.encode)
            THEN EncodeAlone(WriteHeader(NewResponseWriter, hh.successCode), hh.encoder, by,
                             hi.response, hi, ErrorxError(As(hi.encode).errx),
                             Code(As(hi.encode).errx))
            ELSE encode(WriteHeader(NewResponseWriter, hh.successCode), hi.response)

\* C10: however the requests interleave, the configuration and the encoder
\* singletons stay as Handle left them, each request encodes through an
\* encoder of its own bound to its own ResponseWriter, every write on a
\* ResponseWriter is its own request's, and a finished request's response is
\* the one it gets when served alone.
C10_RequestsIsolated ==
    /\ built => h = applyOptions(opts)
    /\ globals = [f \in Formats |-> 0]
    /\ \A r \in Requests :
         /\ \A i \in DOMAIN w[r].writes : w[r].writes[i].by = r
         /\ pc[r] \in {"encode", "encodeFailed", "done"} /\ InTrace(r, Event("New", site[r]))
              => held[r] = [global |-> FALSE, format |-> h.encoder, sink |-> r]
         /\ Done(r) => w[r] = ServedAlone(h, hist[r], r)

C10_Witness ==
    \E r1, r2 \in Requests :
        /\ r1 # r2
        /\ pc[r1] = "encode" /\ site[r1] = "success"
        /\ pc[r2] = "encodeFailed" /\ site[r2] = "bind"
        /\ held[r1].sink = r1 /\ held[r2].sink = r2
        /\ w[r1].writes = <<>> /\ Len(w[r2].writes) = 1

====
